---- MODULE Spec2Model ----
(***************************************************************************)
(* Influence cascade with haters (Praducci_simulation.py) and the seed     *)
(* search pipeline built on it (main.py).                                  *)
(*                                                                         *)
(* Probabilities and hater weights are exact rationals: p_base counts       *)
(* fifths (PScale), so that 1 stands for P_BASE = 0.2, and a hater weight  *)
(* counts halves (WScale), so that 2 stands for the weight 1.0.            *)
(***************************************************************************)
EXTENDS Integers, Sequences, FiniteSets, TLC

VARIABLES
    pc,                           \* position of the running function
    graph,                        \* nx.Graph: [none, nodes, edges]
    haters,                       \* dict node -> weight: [none, w]
    initial_influencers,          \* list of seeds: [none, list]
    p_base, rounds,               \* arguments of simulate_influence
    rnd,                          \* the loop variable of "for _ in range(1, rounds + 1)"
    influenced_nodes,
    newly_influenced_this_round,
    pending,                      \* the rest of all_nodes_in_graph to visit this round
    result,                       \* the value simulate_influence returns
    group,                        \* argument of compute_spreadness
    spreadness,                   \* the value compute_spreadness returns
    initial_group,                \* the candidate pool, shuffled in place
    costs,                        \* dict node -> cost: [none, c]
    budget, num_samples,          \* arguments of sampled_possible_groups
    valid_samples, attempts,
    valid_groups,                 \* the list sampled_possible_groups returns
    average,                      \* the value average_neighbors_in_costs_nodes returns
    nodes_above_average,          \* the list filter_high_degree_nodes returns
    influence_per_node,           \* the list find_average_influence returns, from index 0
    size,                         \* argument of find_top_group
    arg_k, arg_t,                 \* arguments k of top_spreadness and t of top_sum_influence
    top_spreadness_groups,
    top_sum_influence_groups,
    num_tests,                    \* argument of greedy_based_simulate
    S_0, average_max,
    gi,                           \* position of "for group in possible_groups", from 1
    raised                        \* the exception that ended the run, "" if none

simVars == <<initial_influencers, rnd, influenced_nodes, newly_influenced_this_round,
             pending, result>>
spreadVars == <<group, spreadness>>
sampleVars == <<initial_group, costs, budget, num_samples, valid_samples, attempts,
                valid_groups>>

inflVars == <<average, nodes_above_average, influence_per_node, size>>
topVars == <<arg_k, arg_t, top_spreadness_groups, top_sum_influence_groups>>
greedyVars == <<num_tests, S_0, average_max, gi>>

vars == <<pc, graph, haters, p_base, rounds, simVars, spreadVars, sampleVars, inflVars,
          topVars, greedyVars, raised>>

\* the variables simulate_influence does not touch
nonSimVars == <<spreadVars, sampleVars, inflVars, topVars, greedyVars, raised>>

(***************************************************************************)
(* Bounds of the model.                                                    *)
(***************************************************************************)
MaxNode == 2
MaxRounds == 2
MaxGroup == 3
MaxSamples == 2
MaxAttempts == 2
MaxGroups == 2
MaxTests == 2

PScale == 5
WScale == 2
P_BASE == 1
ROUNDS == 6
NodeIds == 0..MaxNode
Weights == {1, WScale}
PBases == {0, P_BASE, PScale}
Costs == {0, 500, 1000}
Budgets == {0, 1000, 1500}

(***************************************************************************)
(* Data: graphs, dictionaries, lists.                                      *)
(***************************************************************************)
Pairs(S) == {e \in SUBSET S : Cardinality(e) = 2}

\* every simple graph on all the node ids, on all but the last, and the
\* empty graph
Graphs == UNION {{[none |-> FALSE, nodes |-> n, edges |-> e] : e \in SUBSET Pairs(n)} :
                 n \in {NodeIds, NodeIds \ {MaxNode}, {}}}

NoneGraph == [none |-> TRUE, nodes |-> {}, edges |-> {}]

\* any set of haters, of one weight
HaterMaps == UNION {{[none |-> FALSE, w |-> [h \in d |-> x]] : x \in Weights} :
                    d \in SUBSET NodeIds}

NoneHaters == [none |-> TRUE, w |-> <<>>]

SeqsUpTo(S, n) == UNION {[1..k -> S] : k \in 0..n}

\* the members of a set of node ids in ascending order
RECURSIVE Ascending(_)
Ascending(S) ==
    IF S = {} THEN <<>>
    ELSE LET m == CHOOSE x \in S : \A y \in S : x <= y
         IN <<m>> \o Ascending(S \ {m})

AscendingSeqs(S) == {Ascending(T) : T \in SUBSET S}

\* the seed lists: any set of nodes, and a list naming a node twice
SeedLists == {[none |-> FALSE, list |-> s] : s \in AscendingSeqs(NodeIds) \cup {<<0, 0>>}}

NoneSeeds == [none |-> TRUE, list |-> <<>>]

Range(s) == {s[i] : i \in DOMAIN s}

neighbors(g, v) == {u \in g.nodes : {u, v} \in g.edges}

RECURSIVE Power(_, _)
Power(b, e) == IF e = 0 THEN 1 ELSE b * Power(b, e - 1)

\* the product over the nodes h of S of (WScale - w[h]), the numerator of
\* the product of (1.0 - haters.get(h, 0.0)) over the denominator WScale^|S|
RECURSIVE AntiProduct(_, _)
AntiProduct(S, w) ==
    IF S = {} THEN 1
    ELSE LET h == CHOOSE x \in S : TRUE
         IN (WScale - (IF h \in DOMAIN w THEN w[h] ELSE 0)) * AntiProduct(S \ {h}, w)

(***************************************************************************)
(* simulate_influence: the decision on one candidate in one round.         *)
(* Returns the probability of infection as a fraction [num, den]; num = 0  *)
(* also stands for the two "continue" branches.                            *)
(***************************************************************************)
influencing_neighbors(g, hs, influenced, candidate) ==
    {u \in neighbors(g, candidate) : u \in influenced /\ u \notin hs}

\* the decision without the test "candidate in haters_set"
prob_infected_hater_blind(g, hw, pb, influenced, candidate) ==
    LET haters_set == DOMAIN hw
        candidate_neighbors == neighbors(g, candidate)
        infl == influencing_neighbors(g, haters_set, influenced, candidate)
        hater_neighbors_of_candidate == {a \in candidate_neighbors : a \in haters_set}
        antiNum == AntiProduct(hater_neighbors_of_candidate, hw)
        antiDen == Power(WScale, Cardinality(hater_neighbors_of_candidate))
        peNum == pb * antiNum
        peDen == PScale * antiDen
        m == Cardinality(infl)
    IN IF candidate \in influenced \/ infl = {}
       THEN [num |-> 0, den |-> 1]
       ELSE [num |-> Power(peDen, m) - Power(peDen - peNum, m), den |-> Power(peDen, m)]

prob_infected(g, hw, pb, influenced, candidate) ==
    LET haters_set == DOMAIN hw
        candidate_neighbors == neighbors(g, candidate)
        infl == influencing_neighbors(g, haters_set, influenced, candidate)
        hater_neighbors_of_candidate == {a \in candidate_neighbors : a \in haters_set}
        antiNum == AntiProduct(hater_neighbors_of_candidate, hw)
        antiDen == Power(WScale, Cardinality(hater_neighbors_of_candidate))
        peNum == pb * antiNum
        peDen == PScale * antiDen
        m == Cardinality(infl)
    IN IF candidate \in influenced \/ candidate \in haters_set \/ infl = {}
       THEN [num |-> 0, den |-> 1]
       ELSE [num |-> Power(peDen, m) - Power(peDen - peNum, m), den |-> Power(peDen, m)]

\* list(graph.nodes()): the nodes in insertion order. The graphs range over
\* every labelling, so visiting in ascending order of the labels covers every
\* visiting order of every graph.
all_nodes_in_graph(g) == Ascending(g.nodes)

\* "random.random() < prob_infected" with random.random() uniform in [0, 1):
\* the draw can succeed iff the probability is positive and can fail iff it
\* is below one
CanInfect(pr) == pr.num > 0
CanEscape(pr) == pr.num < pr.den

\* the variables of the functions that are not running
SimIdle ==
    /\ initial_influencers = NoneSeeds
    /\ rnd = 0
    /\ influenced_nodes = {}
    /\ newly_influenced_this_round = {}
    /\ pending = <<>>
    /\ result = -1

SpreadIdle ==
    /\ group = <<>>
    /\ spreadness = [kind |-> "none", num |-> 0, den |-> 1]

NoneCosts == [none |-> TRUE, c |-> <<>>]

InflIdle ==
    /\ average = [num |-> 0, den |-> 1]
    /\ nodes_above_average = <<>>
    /\ influence_per_node = <<>>
    /\ size = 0

TopIdle ==
    /\ arg_k = 0
    /\ arg_t = 0
    /\ top_spreadness_groups = <<>>
    /\ top_sum_influence_groups = <<>>

GreedyIdle ==
    /\ num_tests = 0
    /\ S_0 = <<>>
    /\ average_max = [num |-> 0, den |-> 1]
    /\ gi = 0

SampleIdle ==
    /\ initial_group = <<>>
    /\ costs = NoneCosts
    /\ budget = 0
    /\ num_samples = 0
    /\ valid_samples = {}
    /\ attempts = 0
    /\ valid_groups = <<>>

(***************************************************************************)
(* simulate_influence, step by step.                                       *)
(***************************************************************************)
SimInit ==
    /\ pc = "sim_start"
    /\ graph \in Graphs \cup {NoneGraph}
    /\ haters \in HaterMaps \cup {NoneHaters}
    /\ initial_influencers \in SeedLists \cup {NoneSeeds}
    /\ Cardinality({x \in {graph, haters, initial_influencers} : x.none}) <= 1
    /\ p_base \in PBases
    /\ rounds \in 0..MaxRounds
    /\ rnd = 0
    /\ influenced_nodes = {}
    /\ newly_influenced_this_round = {}
    /\ pending = <<>>
    /\ result = -1
    /\ SpreadIdle
    /\ SampleIdle
    /\ InflIdle
    /\ TopIdle
    /\ GreedyIdle
    /\ raised = ""

\* the early return handing back no count
SimMissingNoCount ==
    /\ pc = "sim_start"
    /\ graph.none \/ initial_influencers.none \/ haters.none
    /\ result' = -1
    /\ pc' = "sim_done"
    /\ UNCHANGED <<graph, haters, initial_influencers, p_base, rounds, rnd,
                   influenced_nodes, newly_influenced_this_round, pending>>
    /\ UNCHANGED nonSimVars

\* lines 181-183: the early return on missing data
SimMissing ==
    /\ pc = "sim_start"
    /\ graph.none \/ initial_influencers.none \/ haters.none
    /\ result' = 0
    /\ pc' = "sim_done"
    /\ UNCHANGED <<graph, haters, initial_influencers, p_base, rounds, rnd,
                   influenced_nodes, newly_influenced_this_round, pending>>
    /\ UNCHANGED nonSimVars

\* lines 186-190
SimStart ==
    /\ pc = "sim_start"
    /\ ~(graph.none \/ initial_influencers.none \/ haters.none)
    /\ influenced_nodes' = Range(initial_influencers.list) \ DOMAIN haters.w
    /\ pc' = "sim_for_round"
    /\ UNCHANGED <<graph, haters, initial_influencers, p_base, rounds, rnd,
                   newly_influenced_this_round, pending, result>>
    /\ UNCHANGED nonSimVars

\* the round loop running over range(0, rounds + 1)
SimRoundBeginFromZero ==
    /\ pc = "sim_for_round"
    /\ rnd <= rounds
    /\ rnd' = rnd + 1
    /\ newly_influenced_this_round' = {}
    /\ pending' = all_nodes_in_graph(graph)
    /\ pc' = "sim_for_candidate"
    /\ UNCHANGED <<graph, haters, initial_influencers, p_base, rounds,
                   influenced_nodes, result>>
    /\ UNCHANGED nonSimVars

\* lines 192-193: one more iteration of the round loop
SimRoundBegin ==
    /\ pc = "sim_for_round"
    /\ rnd < rounds
    /\ rnd' = rnd + 1
    /\ newly_influenced_this_round' = {}
    /\ pending' = all_nodes_in_graph(graph)
    /\ pc' = "sim_for_candidate"
    /\ UNCHANGED <<graph, haters, initial_influencers, p_base, rounds,
                   influenced_nodes, result>>
    /\ UNCHANGED nonSimVars

\* the candidate loop with infections taking effect at once
SimVisitCascading ==
    /\ pc = "sim_for_candidate"
    /\ pending # <<>>
    /\ LET candidate == Head(pending)
           pr == prob_infected(graph, haters.w, p_base,
                               influenced_nodes \cup newly_influenced_this_round, candidate)
       IN /\ pending' = Tail(pending)
          /\ \/ /\ CanInfect(pr)
                /\ newly_influenced_this_round' = newly_influenced_this_round \cup {candidate}
             \/ /\ CanEscape(pr)
                /\ UNCHANGED newly_influenced_this_round
    /\ UNCHANGED <<pc, graph, haters, initial_influencers, p_base, rounds, rnd,
                   influenced_nodes, result>>
    /\ UNCHANGED nonSimVars

\* lines 195-234: the body of the candidate loop for one candidate
SimVisit ==
    /\ pc = "sim_for_candidate"
    /\ pending # <<>>
    /\ LET candidate == Head(pending)
           pr == prob_infected(graph, haters.w, p_base, influenced_nodes, candidate)
       IN /\ pending' = Tail(pending)
          /\ \/ /\ CanInfect(pr)
                /\ newly_influenced_this_round' = newly_influenced_this_round \cup {candidate}
             \/ /\ CanEscape(pr)
                /\ UNCHANGED newly_influenced_this_round
    /\ UNCHANGED <<pc, graph, haters, initial_influencers, p_base, rounds, rnd,
                   influenced_nodes, result>>
    /\ UNCHANGED nonSimVars

\* line 237
SimRoundEnd ==
    /\ pc = "sim_for_candidate"
    /\ pending = <<>>
    /\ influenced_nodes' = influenced_nodes \cup newly_influenced_this_round
    /\ pc' = "sim_for_round"
    /\ UNCHANGED <<graph, haters, initial_influencers, p_base, rounds, rnd,
                   newly_influenced_this_round, pending, result>>
    /\ UNCHANGED nonSimVars

\* line 240
SimReturn ==
    /\ pc = "sim_for_round"
    /\ rnd >= rounds
    /\ result' = Cardinality(influenced_nodes)
    /\ pc' = "sim_done"
    /\ UNCHANGED <<graph, haters, initial_influencers, p_base, rounds, rnd,
                   influenced_nodes, newly_influenced_this_round, pending>>
    /\ UNCHANGED nonSimVars

SimNext == SimMissing \/ SimStart \/ SimRoundBegin \/ SimVisit \/ SimRoundEnd \/ SimReturn

SimSpec == SimInit /\ [][SimNext]_vars

(***************************************************************************)
(* compute_spreadness (main.py).                                           *)
(***************************************************************************)
\* the nodes a breadth-first search from the frontier reaches
RECURSIVE Component(_, _, _)
Component(g, frontier, seen) ==
    LET next == UNION {neighbors(g, x) : x \in frontier} \ seen
    IN IF next = {} THEN seen ELSE Component(g, next, seen \cup next)

\* nx.has_path
has_path(g, u, v) == v \in Component(g, {u}, {u})

\* nx.shortest_path_length on an unweighted graph: the breadth-first level
\* of the target; called only when a path exists
RECURSIVE BfsLevel(_, _, _, _, _)
BfsLevel(g, frontier, seen, target, level) ==
    IF target \in frontier THEN level
    ELSE LET next == UNION {neighbors(g, x) : x \in frontier} \ seen
         IN BfsLevel(g, next, seen \cup next, target, level + 1)

shortest_path_length(g, u, v) == BfsLevel(g, {u}, {u}, v, 0)

\* lines 92-102: the double loop over i < j, from the pair (i, j) on
RECURSIVE SpreadLoop(_, _, _, _, _)
SpreadLoop(g, grp, i, j, acc) ==
    IF i > Len(grp) THEN acc
    ELSE IF j > Len(grp) THEN SpreadLoop(g, grp, i + 1, i + 2, acc)
    ELSE IF has_path(g, grp[i], grp[j])
         THEN SpreadLoop(g, grp, i, j + 1,
                         [total_length |-> acc.total_length
                                             + shortest_path_length(g, grp[i], grp[j]),
                          count |-> acc.count + 1])
         ELSE SpreadLoop(g, grp, i, j + 1, acc)

Zero == [kind |-> "num", num |-> 0, den |-> 1]
Infinity == [kind |-> "inf", num |-> 1, den |-> 0]

\* the double loop dividing by the number of all pairs
compute_spreadness_all_pairs(g, grp0) ==
    LET grp == SelectSeq(grp0, LAMBDA node : node \in g.nodes)
        n == Len(grp)
        acc == SpreadLoop(g, grp, 1, 2, [total_length |-> 0, count |-> 0])
    IN IF n < 2 THEN Zero
       ELSE IF acc.count = 0 THEN Infinity
       ELSE [kind |-> "num", num |-> acc.total_length, den |-> (n * (n - 1)) \div 2]

\* lines 83-107
compute_spreadness(g, grp0) ==
    LET grp == SelectSeq(grp0, LAMBDA node : node \in g.nodes)
        n == Len(grp)
        acc == SpreadLoop(g, grp, 1, 2, [total_length |-> 0, count |-> 0])
    IN IF n < 2 THEN Zero
       ELSE IF acc.count = 0 THEN Infinity
       ELSE [kind |-> "num", num |-> acc.total_length, den |-> acc.count]

SpreadInit ==
    /\ pc = "spread_start"
    /\ graph \in Graphs
    /\ group \in SeqsUpTo(NodeIds, MaxGroup)
    /\ spreadness = [kind |-> "none", num |-> 0, den |-> 1]
    /\ haters = NoneHaters
    /\ p_base = 0
    /\ rounds = 0
    /\ SimIdle
    /\ SampleIdle
    /\ InflIdle
    /\ TopIdle
    /\ GreedyIdle
    /\ raised = ""

SpreadCall ==
    /\ pc = "spread_start"
    /\ spreadness' = compute_spreadness(graph, group)
    /\ pc' = "spread_done"
    /\ UNCHANGED <<graph, haters, p_base, rounds, simVars, group, sampleVars, inflVars,
                   topVars, greedyVars, raised>>

SpreadNext == SpreadCall

SpreadSpec == SpreadInit /\ [][SpreadNext]_vars

(***************************************************************************)
(* sampled_possible_groups (main.py).                                      *)
(***************************************************************************)
AttemptFactor == 100

\* the orders random.shuffle can leave a list in
Shuffles(s) ==
    {[i \in DOMAIN s |-> s[f[i]]] :
        f \in {h \in [DOMAIN s -> DOMAIN s] : \A i, j \in DOMAIN s : i # j => h[i] # h[j]}}

RECURSIVE Insert(_, _)
Insert(x, s) ==
    IF s = <<>> THEN <<x>>
    ELSE IF x <= Head(s) THEN <<x>> \o s
    ELSE <<Head(s)>> \o Insert(x, Tail(s))

\* a list kept in the order it was built
unsorted(s) == s

\* the builtin sorted on a list of node ids
RECURSIVE sorted(_)
sorted(s) == IF s = <<>> THEN <<>> ELSE Insert(Head(s), sorted(Tail(s)))

\* lines 120-129: one pass over the shuffled pool from position i on;
\* accepted when the running total hits the budget, raised when a node has
\* no cost
RECURSIVE Accumulate(_, _, _, _, _, _)
Accumulate(order, c, bud, i, grp, total) ==
    IF i > Len(order) THEN [group |-> grp, accepted |-> FALSE, raised |-> ""]
    ELSE IF order[i] \notin DOMAIN c THEN [group |-> grp, accepted |-> FALSE, raised |-> "KeyError"]
    ELSE LET cost == c[order[i]]
             fits == total + cost <= bud
             grp1 == IF fits THEN Append(grp, order[i]) ELSE grp
             total1 == IF fits THEN total + cost ELSE total
         IN IF total1 = bud THEN [group |-> grp1, accepted |-> TRUE, raised |-> ""]
            ELSE Accumulate(order, c, bud, i + 1, grp1, total1)

\* the lists a set of tuples can be listed as
ListsOf(S) == {q \in [1..Cardinality(S) -> S] : \A x \in S : \E i \in DOMAIN q : q[i] = x}

CostMaps == UNION {{[none |-> FALSE, c |-> f] : f \in [d -> Costs]} :
                   d \in {NodeIds, NodeIds \ {MaxNode}}}

SampleInit ==
    /\ pc = "sample_loop"
    /\ initial_group \in AscendingSeqs(NodeIds)
    /\ costs \in CostMaps
    /\ budget \in Budgets
    /\ num_samples \in 0..MaxSamples
    /\ valid_samples = {}
    /\ attempts = 0
    /\ valid_groups = <<>>
    /\ graph = NoneGraph
    /\ haters = NoneHaters
    /\ p_base = 0
    /\ rounds = 0
    /\ SimIdle
    /\ SpreadIdle
    /\ InflIdle
    /\ TopIdle
    /\ GreedyIdle
    /\ raised = ""

\* line 115, the attempts capped at MaxAttempts
max_attempts(n) == IF n * AttemptFactor < MaxAttempts THEN n * AttemptFactor ELSE MaxAttempts

\* lines 117-129: one iteration of the while loop
SampleAttempt ==
    /\ pc = "sample_loop"
    /\ Cardinality(valid_samples) < num_samples
    /\ attempts < max_attempts(num_samples)
    /\ attempts' = attempts + 1
    /\ \E order \in Shuffles(initial_group) :
         LET r == Accumulate(order, costs.c, budget, 1, <<>>, 0)
         IN /\ initial_group' = order
            /\ raised' = r.raised
            /\ pc' = IF r.raised # "" THEN "raised" ELSE "sample_loop"
            /\ valid_samples' = IF r.accepted THEN valid_samples \cup {sorted(r.group)}
                                ELSE valid_samples
    /\ UNCHANGED <<graph, haters, p_base, rounds, simVars, spreadVars, inflVars, topVars, greedyVars,
                   costs, budget, num_samples, valid_groups>>

\* lines 130-131: the loop condition fails
SampleReturn ==
    /\ pc = "sample_loop"
    /\ ~(Cardinality(valid_samples) < num_samples /\ attempts < max_attempts(num_samples))
    /\ valid_groups' \in ListsOf(valid_samples)
    /\ pc' = "sample_done"
    /\ UNCHANGED <<graph, haters, p_base, rounds, simVars, spreadVars, inflVars, topVars, greedyVars,
                   initial_group, costs, budget, num_samples, valid_samples, attempts, raised>>

SampleNext == SampleAttempt \/ SampleReturn

SampleSpec == SampleInit /\ [][SampleNext]_vars

(***************************************************************************)
(* The candidate stages of main.py. Scores are exact rationals over the    *)
(* common denominator ScoreDen.                                            *)
(***************************************************************************)
RECURSIVE Factorial(_)
Factorial(n) == IF n = 0 THEN 1 ELSE n * Factorial(n - 1)

\* a multiple of every denominator PScale * WScale^h * d with h hater
\* neighbours and d neighbours
ScoreDen == PScale * Power(WScale, Cardinality(NodeIds)) * Factorial(MaxNode)

RECURSIVE SumOver(_, _)
SumOver(S, f) ==
    IF S = {} THEN 0
    ELSE LET x == CHOOSE y \in S : TRUE IN f[x] + SumOver(S \ {x}, f)

\* lines 17-36, graph and costs given: total_neighbors / count, or 0
average_neighbors_in_costs_nodes(g, c) ==
    LET matching == DOMAIN c \cap g.nodes
        total_neighbors == SumOver(matching, [n \in matching |-> Cardinality(neighbors(g, n))])
        count == Cardinality(matching)
    IN IF count = 0 THEN [num |-> 0, den |-> 1]
       ELSE [num |-> total_neighbors, den |-> count]

\* lines 40-51, graph and costs given; the cost table is read in ascending
\* order of the node ids
filter_high_degree_nodes(g, c, avg) ==
    SelectSeq(Ascending(DOMAIN c),
              LAMBDA node : node \in g.nodes
                            /\ Cardinality(neighbors(g, node)) * avg.den >= avg.num)

\* lines 56-62: P_BASE times (1 - weight) for every hater among the friends
\* of v, as a count of 1 / (PScale * WScale^|NodeIds|)
find_P_u_v(g, hw, P, u, v) ==
    LET hs == neighbors(g, v) \cap DOMAIN hw
    IN P * AntiProduct(hs, hw) * Power(WScale, Cardinality(NodeIds) - Cardinality(hs))

\* the score of one candidate as a count of 1 / ScoreDen
average_influence(g, hw, P, user_id) ==
    LET friends == neighbors(g, user_id)
        sum_friends_influence ==
            SumOver(friends, [friend \in friends |-> find_P_u_v(g, hw, P, user_id, friend)])
    IN (sum_friends_influence * Factorial(MaxNode)) \div Cardinality(friends)

\* the exception the loop body raises for a candidate, "" if none
influence_error(g, user_id) ==
    IF user_id \notin g.nodes THEN "NetworkXError"
    ELSE IF neighbors(g, user_id) = {} THEN "ZeroDivisionError"
    ELSE ""

Max(S) == CHOOSE x \in S : \A y \in S : y <= x

\* lines 66-74: the list indexed by node id, gaps filled with 0 by set_value;
\* the first candidate that cannot be scored raises
find_average_influence(g, hw, cands, P) ==
    LET bad == {i \in DOMAIN cands : influence_error(g, cands[i]) # ""}
    IN IF bad # {}
       THEN [raised |-> influence_error(g, cands[CHOOSE i \in bad : \A j \in bad : i <= j]),
             list |-> <<>>]
       ELSE IF cands = <<>> THEN [raised |-> "", list |-> <<>>]
       ELSE [raised |-> "",
             list |-> [i \in 0..Max(Range(cands)) |->
                         IF i \in Range(cands) THEN average_influence(g, hw, P, i) ELSE 0]]

\* the lists of the indices of a list (from 0) in ascending order of the
\* values; argsort's default sort is not stable, equal values come in any order
argsort(list) ==
    {q \in [1..Cardinality(DOMAIN list) -> DOMAIN list] :
        /\ \A i, j \in DOMAIN q : i # j => q[i] # q[j]
        /\ \A i, j \in DOMAIN q : i < j => list[q[i]] <= list[q[j]]}

Reverse(q) == [i \in DOMAIN q |-> q[Len(q) + 1 - i]]

\* the slice q[-n:] of a list; q[-0:] is the whole list
LastN(q, n) == IF n = 0 \/ n >= Len(q) THEN q ELSE SubSeq(q, Len(q) - n + 1, Len(q))

\* lines 77-80: the results find_top_group can return
find_top_group(sz, list) == {Reverse(LastN(q, sz)) : q \in argsort(list)}

TopSize == 700
BUDGET == 1500
NumSamples == 3000
TopK == 200
TopT == 100

\* line 194
MainAverage ==
    /\ pc = "main_average"
    /\ average' = average_neighbors_in_costs_nodes(graph, costs.c)
    /\ pc' = "main_filter"
    /\ UNCHANGED <<graph, haters, p_base, rounds, simVars, spreadVars, sampleVars, topVars,
                   greedyVars, nodes_above_average, influence_per_node, size, raised>>

\* line 196
MainFilter ==
    /\ pc = "main_filter"
    /\ nodes_above_average' = filter_high_degree_nodes(graph, costs.c, average)
    /\ pc' = "main_influence"
    /\ UNCHANGED <<graph, haters, p_base, rounds, simVars, spreadVars, sampleVars, topVars,
                   greedyVars, average, influence_per_node, size, raised>>

\* line 198
MainInfluence ==
    /\ pc = "main_influence"
    /\ LET r == find_average_influence(graph, haters.w, nodes_above_average, P_BASE)
       IN /\ raised' = r.raised
          /\ influence_per_node' = r.list
          /\ pc' = IF r.raised # "" THEN "raised" ELSE "main_top"
    /\ UNCHANGED <<graph, haters, p_base, rounds, simVars, spreadVars, sampleVars, topVars,
                   greedyVars, average, nodes_above_average, size>>

\* line 200: the candidate pool handed to sampled_possible_groups
MainTopGroup ==
    /\ pc = "main_top"
    /\ initial_group' \in find_top_group(size, influence_per_node)
    /\ pc' = "sample_loop"
    /\ UNCHANGED <<graph, haters, p_base, rounds, simVars, spreadVars, inflVars, topVars, greedyVars,
                   costs, budget, num_samples, valid_samples, attempts, valid_groups, raised>>

(***************************************************************************)
(* top_spreadness and top_sum_influence (main.py).                         *)
(***************************************************************************)
\* a < b on floats: fractions and +infinity
FloatLess(a, b) ==
    IF a.kind = "inf" THEN FALSE
    ELSE IF b.kind = "inf" THEN TRUE
    ELSE a.num * b.den < b.num * a.den

\* list.sort(key, reverse=True): descending, equal keys in their input
\* order. InsertDesc puts x behind every entry that is not smaller.
RECURSIVE InsertDesc(_, _)
InsertDesc(x, sorted_part) ==
    IF sorted_part = <<>> THEN <<x>>
    ELSE IF FloatLess(Head(sorted_part).score, x.score) THEN <<x>> \o sorted_part
    ELSE <<Head(sorted_part)>> \o InsertDesc(x, Tail(sorted_part))

RECURSIVE SortDesc(_, _)
SortDesc(scored, done) ==
    IF scored = <<>> THEN done
    ELSE SortDesc(Tail(scored), InsertDesc(Head(scored), done))

\* the slice q[:n] for n >= 0
FirstN(q, n) == IF n >= Len(q) THEN q ELSE SubSeq(q, 1, n)

\* lines 135-140
top_spreadness(groups, g, kk) ==
    LET scored == [i \in DOMAIN groups |->
                     [group |-> groups[i], score |-> compute_spreadness(g, groups[i])]]
        ordered == SortDesc(scored, <<>>)
    IN FirstN([i \in DOMAIN ordered |-> ordered[i].group], kk)

\* "node in influence_per_node" on a list: some entry equals the node id
InList(node, list) == \E i \in DOMAIN list : list[i] = node * ScoreDen

RECURSIVE GroupSum(_, _, _)
GroupSum(grp, list, i) ==
    IF i > Len(grp) THEN 0
    ELSE (IF InList(grp[i], list) THEN list[grp[i]] ELSE 0) + GroupSum(grp, list, i + 1)

\* lines 142-153; indexing the list beyond its end raises
top_sum_influence(list_groups, list, tt) ==
    IF \E i \in DOMAIN list_groups : \E j \in DOMAIN list_groups[i] :
          InList(list_groups[i][j], list) /\ list_groups[i][j] \notin DOMAIN list
    THEN [raised |-> "IndexError", groups |-> <<>>]
    ELSE LET group_influence_sums ==
                 [i \in DOMAIN list_groups |->
                    [group |-> list_groups[i],
                     score |-> [kind |-> "num", num |-> GroupSum(list_groups[i], list, 1),
                                den |-> ScoreDen]]]
             ordered == SortDesc(group_influence_sums, <<>>)
         IN [raised |-> "", groups |-> FirstN([i \in DOMAIN ordered |-> ordered[i].group], tt)]

\* line 204
MainTopSpreadness ==
    /\ pc = "sample_done"
    /\ top_spreadness_groups' = top_spreadness(valid_groups, graph, arg_k)
    /\ pc' = "main_top_sum"
    /\ UNCHANGED <<graph, haters, p_base, rounds, simVars, spreadVars, sampleVars, inflVars,
                   greedyVars, arg_k, arg_t, top_sum_influence_groups, raised>>

\* line 206
MainTopSumInfluence ==
    /\ pc = "main_top_sum"
    /\ LET r == top_sum_influence(top_spreadness_groups, influence_per_node, arg_t)
       IN /\ raised' = r.raised
          /\ top_sum_influence_groups' = r.groups
          /\ pc' = IF r.raised # "" THEN "raised" ELSE "greedy_start"
    /\ UNCHANGED <<graph, haters, p_base, rounds, simVars, spreadVars, sampleVars, inflVars,
                   greedyVars, arg_k, arg_t, top_spreadness_groups>>

(***************************************************************************)
(* greedy_based_simulate (main.py), with simulate_influence as one call.   *)
(***************************************************************************)
\* the influenced sets one round can lead to from the set S
RoundOutcomes(g, hw, pb, S) ==
    LET may == {c \in g.nodes : CanInfect(prob_infected(g, hw, pb, S, c))}
        must == {c \in g.nodes : ~CanEscape(prob_infected(g, hw, pb, S, c))}
    IN {S \cup N : N \in {M \in SUBSET may : must \subseteq M}}

RECURSIVE SimSets(_, _, _, _, _)
SimSets(g, hw, pb, S0, r) ==
    IF r = 0 THEN {S0}
    ELSE UNION {RoundOutcomes(g, hw, pb, S) : S \in SimSets(g, hw, pb, S0, r - 1)}

\* the counts a call of simulate_influence can return
simulate_influence(g, seeds, h, pb, r) ==
    IF g.none \/ seeds.none \/ h.none THEN {0}
    ELSE {Cardinality(S) : S \in SimSets(g, h.w, pb, Range(seeds.list) \ DOMAIN h.w, r)}

RECURSIVE Totals(_, _)
Totals(counts, n) ==
    IF n = 0 THEN {0} ELSE {a + b : a \in counts, b \in Totals(counts, n - 1)}

\* lines 156-160, num_tests > 0: the averages the calls can add up to
average_num_tests_simulates(g, grp, h, pb, r, n) ==
    {[num |-> total, den |-> n] :
        total \in Totals(simulate_influence(g, [none |-> FALSE, list |-> grp], h, pb, r), n)}

FracLess(a, b) == a.num * b.den < b.num * a.den

\* lines 165-166
GreedyStart ==
    /\ pc = "greedy_start"
    /\ IF top_sum_influence_groups = <<>>
       THEN /\ raised' = "IndexError"
            /\ pc' = "raised"
            /\ UNCHANGED <<S_0, average_max, gi>>
       ELSE IF num_tests = 0
       THEN /\ raised' = "ZeroDivisionError"
            /\ pc' = "raised"
            /\ S_0' = top_sum_influence_groups[1]
            /\ UNCHANGED <<average_max, gi>>
       ELSE /\ S_0' = top_sum_influence_groups[1]
            /\ average_max' \in average_num_tests_simulates(
                   graph, top_sum_influence_groups[1], haters, p_base, rounds, num_tests)
            /\ gi' = 1
            /\ pc' = "greedy_loop"
            /\ UNCHANGED raised
    /\ UNCHANGED <<graph, haters, p_base, rounds, simVars, spreadVars, sampleVars, inflVars,
                   topVars, num_tests>>

\* lines 167-172: one iteration, simulating with the globals P_BASE and ROUNDS
GreedyStep ==
    /\ pc = "greedy_loop"
    /\ gi <= Len(top_sum_influence_groups)
    /\ \E avg \in average_num_tests_simulates(
              graph, top_sum_influence_groups[gi], haters, P_BASE, ROUNDS, num_tests) :
         IF FracLess(average_max, avg)
         THEN S_0' = top_sum_influence_groups[gi] /\ average_max' = avg
         ELSE UNCHANGED <<S_0, average_max>>
    /\ gi' = gi + 1
    /\ UNCHANGED <<pc, graph, haters, p_base, rounds, simVars, spreadVars, sampleVars,
                   inflVars, topVars, num_tests, raised>>

\* line 173
GreedyReturn ==
    /\ pc = "greedy_loop"
    /\ gi > Len(top_sum_influence_groups)
    /\ pc' = "greedy_done"
    /\ UNCHANGED <<graph, haters, p_base, rounds, simVars, spreadVars, sampleVars,
                   inflVars, topVars, greedyVars, raised>>

(***************************************************************************)
(* The specifications of the stages.                                       *)
(***************************************************************************)
\* the graphs read_graph builds from an edge list: every node has an edge
EdgeListGraphs == {[none |-> FALSE, nodes |-> UNION e, edges |-> e] : e \in SUBSET Pairs(NodeIds)}

\* the stages of __main__ up to the call of greedy_based_simulate
PipeInit ==
    /\ pc = "main_average"
    /\ graph \in EdgeListGraphs
    /\ haters \in HaterMaps
    /\ costs \in CostMaps
    /\ budget = BUDGET
    /\ size = TopSize
    /\ num_samples = NumSamples
    /\ arg_k = TopK
    /\ arg_t = TopT
    /\ initial_group = <<>>
    /\ valid_samples = {}
    /\ attempts = 0
    /\ valid_groups = <<>>
    /\ average = [num |-> 0, den |-> 1]
    /\ nodes_above_average = <<>>
    /\ influence_per_node = <<>>
    /\ top_spreadness_groups = <<>>
    /\ top_sum_influence_groups = <<>>
    /\ p_base = P_BASE
    /\ rounds = ROUNDS
    /\ SimIdle
    /\ SpreadIdle
    /\ GreedyIdle
    /\ raised = ""

PipeNext ==
    \/ MainAverage \/ MainFilter \/ MainInfluence \/ MainTopGroup
    \/ SampleAttempt \/ SampleReturn
    \/ MainTopSpreadness \/ MainTopSumInfluence

PipeSpec == PipeInit /\ [][PipeNext]_vars

\* find_average_influence and find_top_group on any candidates
InflInit ==
    /\ pc = "main_influence"
    /\ graph \in Graphs
    /\ haters \in HaterMaps
    /\ nodes_above_average \in AscendingSeqs(NodeIds)
    /\ size \in 0..(MaxNode + 2)
    /\ average = [num |-> 0, den |-> 1]
    /\ influence_per_node = <<>>
    /\ p_base = P_BASE
    /\ rounds = ROUNDS
    /\ SimIdle
    /\ SpreadIdle
    /\ SampleIdle
    /\ TopIdle
    /\ GreedyIdle
    /\ raised = ""

\* find_top_group returning to its caller
TopGroupCall ==
    /\ pc = "main_top"
    /\ initial_group' \in find_top_group(size, influence_per_node)
    /\ pc' = "top_done"
    /\ UNCHANGED <<graph, haters, p_base, rounds, simVars, spreadVars, inflVars, topVars,
                   greedyVars, costs, budget, num_samples, valid_samples, attempts,
                   valid_groups, raised>>

InflNext == MainInfluence \/ TopGroupCall

InflSpec == InflInit /\ [][InflNext]_vars

\* the lists of at most n different groups
GroupLists(n) == {q \in SeqsUpTo(AscendingSeqs(NodeIds), n) :
                    \A i, j \in DOMAIN q : i # j => q[i] # q[j]}

\* greedy_based_simulate on any list of groups
GreedyInit ==
    /\ pc = "greedy_start"
    /\ graph \in Graphs
    /\ haters \in HaterMaps
    /\ top_sum_influence_groups \in GroupLists(MaxGroups)
    /\ p_base \in PBases
    /\ rounds \in {0, MaxRounds}
    /\ num_tests \in 0..MaxTests
    /\ S_0 = <<>>
    /\ average_max = [num |-> 0, den |-> 1]
    /\ gi = 0
    /\ arg_k = 0
    /\ arg_t = 0
    /\ top_spreadness_groups = <<>>
    /\ SimIdle
    /\ SpreadIdle
    /\ SampleIdle
    /\ InflIdle
    /\ raised = ""

\* top_spreadness, top_sum_influence and greedy_based_simulate in the order
\* of __main__, on any list of groups and with the score table of the graph
SelectInit ==
    /\ pc = "sample_done"
    /\ graph \in Graphs
    /\ haters \in HaterMaps
    /\ valid_groups \in GroupLists(MaxGroups)
    /\ influence_per_node =
          find_average_influence(graph, haters.w,
                                 Ascending({n \in graph.nodes : neighbors(graph, n) # {}}),
                                 P_BASE).list
    /\ arg_k \in 0..MaxGroups
    /\ arg_t \in 0..MaxGroups
    /\ top_spreadness_groups = <<>>
    /\ top_sum_influence_groups = <<>>
    /\ p_base = P_BASE
    /\ rounds = ROUNDS
    /\ num_tests = 1
    /\ S_0 = <<>>
    /\ average_max = [num |-> 0, den |-> 1]
    /\ gi = 0
    /\ average = [num |-> 0, den |-> 1]
    /\ nodes_above_average = <<>>
    /\ size = 0
    /\ initial_group = <<>>
    /\ costs = NoneCosts
    /\ budget = 0
    /\ num_samples = 0
    /\ valid_samples = {}
    /\ attempts = 0
    /\ SimIdle
    /\ SpreadIdle
    /\ raised = ""

SelectNext ==
    MainTopSpreadness \/ MainTopSumInfluence \/ GreedyStart \/ GreedyStep \/ GreedyReturn

SelectSpec == SelectInit /\ [][SelectNext]_vars

GreedyNext == GreedyStart \/ GreedyStep \/ GreedyReturn

GreedySpec == GreedyInit /\ [][GreedyNext]_vars

(***************************************************************************)
(* Properties of simulate_influence.                                       *)
(***************************************************************************)
SimRunning == pc \in {"sim_for_round", "sim_for_candidate", "sim_done"} /\ ~haters.none
                 /\ ~graph.none /\ ~initial_influencers.none

InitialSet == Range(initial_influencers.list) \ DOMAIN haters.w

\* C1: the influenced set never shrinks from one step (hence one round) to
\* the next, and at no point contains a key of the hater map, also when the
\* seeds include haters.
C1_MonotoneNoHaters ==
    [][/\ influenced_nodes \subseteq influenced_nodes'
       /\ ~haters.none =>
             (influenced_nodes' \cup newly_influenced_this_round') \cap DOMAIN haters.w = {}]_vars

\* a finished run seeded with a hater in which the influenced set has grown
C1_Witness ==
    /\ pc = "sim_done" /\ SimRunning
    /\ Range(initial_influencers.list) \cap DOMAIN haters.w # {}
    /\ InitialSet # influenced_nodes
    /\ \E h \in DOMAIN haters.w : h \in graph.nodes /\ neighbors(graph, h) \cap influenced_nodes # {}

\* C2: with p_base = 0 or rounds = 0 and no argument None, the influenced
\* set stays the initial seed set minus the haters, and the returned count is
\* its size.
C2_NoSpread ==
    (SimRunning /\ (p_base = 0 \/ rounds = 0)) =>
        /\ influenced_nodes = InitialSet
        /\ newly_influenced_this_round = {}
        /\ pc = "sim_done" => result = Cardinality(InitialSet)

\* a finished run with p_base = 0 in which a seed had a susceptible neighbour
C2_Witness ==
    /\ pc = "sim_done" /\ SimRunning /\ p_base = 0 /\ rounds >= 1
    /\ \E c \in graph.nodes \ (influenced_nodes \cup DOMAIN haters.w) :
          neighbors(graph, c) \cap influenced_nodes # {}
    /\ result = Cardinality(InitialSet) /\ result > 0

\* C3 as stated: a count of zero whenever the graph, the seed list or the
\* hater map is None or empty.
C3_ZeroOnMissingOrEmpty ==
    (pc = "sim_done" /\ (\/ graph.none \/ graph.nodes = {}
                         \/ initial_influencers.none \/ initial_influencers.list = <<>>
                         \/ haters.none \/ DOMAIN haters.w = {}))
        => result = 0

\* C3 amended: a count of zero whenever the graph, the seed list or the
\* hater map is None, or the seed list is empty.
C3_ZeroOnNoneOrNoSeeds ==
    (pc = "sim_done" /\ (\/ graph.none \/ initial_influencers.none \/ haters.none
                         \/ initial_influencers.list = <<>>))
        => result = 0

\* a run returning early on a None argument although seeds were given
C3_Witness ==
    /\ pc = "sim_done" /\ result = 0
    /\ haters.none /\ ~graph.none /\ ~initial_influencers.none
    /\ initial_influencers.list # <<>> /\ graph.edges # {}

\* the nodes the cascade can have reached after k rounds: a node joins in a
\* round only next to a non-hater node reached in an earlier round
RECURSIVE Reach(_)
Reach(k) ==
    IF k = 0 THEN InitialSet
    ELSE LET prev == Reach(k - 1)
         IN prev \cup {c \in graph.nodes \ DOMAIN haters.w :
                         \E u \in neighbors(graph, c) : u \in prev}

\* C10: a node joins in round r only if a non-hater neighbour was influenced
\* at the end of round r-1, whatever the visiting order; so after r rounds
\* every influenced node is within r hops of a seed.
C10_RoundSynchronous ==
    SimRunning =>
        /\ influenced_nodes \subseteq
              Reach(IF pc = "sim_for_candidate" THEN rnd - 1 ELSE rnd)
        /\ newly_influenced_this_round \subseteq Reach(rnd)
        /\ pc = "sim_for_candidate" =>
              \A c \in newly_influenced_this_round :
                 \E u \in neighbors(graph, c) :
                    u \in influenced_nodes /\ u \notin DOMAIN haters.w

\* a round with p_base = 1 in which a node two hops from the seed was
\* visited after its newly infected neighbour and stayed out
C10_Witness ==
    /\ pc = "sim_for_candidate" /\ SimRunning /\ rnd = 1 /\ pending = <<>>
    /\ \E c \in graph.nodes \ (influenced_nodes \cup newly_influenced_this_round
                                \cup DOMAIN haters.w) :
          /\ neighbors(graph, c) \cap newly_influenced_this_round # {}
          /\ p_base = PScale
          /\ neighbors(graph, c) \cap DOMAIN haters.w = {}

(***************************************************************************)
(* Properties of compute_spreadness.                                       *)
(***************************************************************************)
\* the nodes within k hops of u
RECURSIVE Ball(_, _, _)
Ball(g, u, k) ==
    IF k = 0 THEN {u}
    ELSE LET b == Ball(g, u, k - 1) IN b \cup UNION {neighbors(g, x) : x \in b}

Connected(g, u, v) == \E k \in 0..Cardinality(g.nodes) : v \in Ball(g, u, k)

Dist(g, u, v) == CHOOSE k \in 0..Cardinality(g.nodes) :
                     /\ v \in Ball(g, u, k)
                     /\ \A l \in 0..(k - 1) : v \notin Ball(g, u, l)

Members == SelectSeq(group, LAMBDA node : node \in graph.nodes)

ConnectedPairs == {ij \in (1..Len(Members)) \X (1..Len(Members)) :
                     ij[1] < ij[2] /\ Connected(graph, Members[ij[1]], Members[ij[2]])}

RECURSIVE SumDist(_)
SumDist(P) ==
    IF P = {} THEN 0
    ELSE LET ij == CHOOSE x \in P : TRUE
         IN Dist(graph, Members[ij[1]], Members[ij[2]]) + SumDist(P \ {ij})

\* C7: after dropping the members that are not in the graph, the score is 0
\* for fewer than 2 members, +infinity when no pair of members is connected,
\* and otherwise the mean distance over the connected pairs only.
C7_Spreadness ==
    pc = "spread_done" =>
        IF Len(Members) < 2 THEN spreadness = Zero
        ELSE IF ConnectedPairs = {} THEN spreadness = Infinity
        ELSE /\ spreadness.kind = "num"
             /\ spreadness.den > 0
             /\ spreadness.num * Cardinality(ConnectedPairs)
                   = SumDist(ConnectedPairs) * spreadness.den

\* a scored group of three members with a connected and an unconnected pair
C7_Witness ==
    /\ pc = "spread_done"
    /\ Len(Members) = 3
    /\ Len(group) = 3
    /\ Cardinality(ConnectedPairs) = 1
    /\ spreadness.kind = "num" /\ spreadness.num = spreadness.den

(***************************************************************************)
(* Properties of sampled_possible_groups.                                  *)
(***************************************************************************)
RECURSIVE SumCost(_)
SumCost(S) ==
    IF S = {} THEN 0
    ELSE LET x == CHOOSE y \in S : TRUE IN costs.c[x] + SumCost(S \ {x})

GroupOk(g) ==
    /\ Range(g) \subseteq Range(initial_group)
    /\ Cardinality(Range(g)) = Len(g)
    /\ SumCost(Range(g)) = budget

\* C4: every group collected or returned is a subset of the pool whose total
\* cost equals the budget exactly, and no two groups are equal as sets.
C4_GroupsExactBudgetDistinct ==
    /\ \A g \in valid_samples : GroupOk(g)
    /\ \A g, h \in valid_samples : Range(g) = Range(h) => g = h
    /\ \A i \in DOMAIN valid_groups : GroupOk(valid_groups[i])
    /\ \A i, j \in DOMAIN valid_groups :
          Range(valid_groups[i]) = Range(valid_groups[j]) => i = j

\* two groups of different sizes returned after two shuffles
C4_Witness ==
    /\ pc = "sample_done"
    /\ Len(valid_groups) = 2
    /\ Len(valid_groups[1]) # Len(valid_groups[2])
    /\ budget > 0

(***************************************************************************)
(* Properties of the candidate stages.                                     *)
(***************************************************************************)
HasHater(g) == Range(g) \cap DOMAIN haters.w # {}

\* C5: no hater is a candidate seed: neither the candidate list of
\* find_top_group nor any group sampled from it and passed on to
\* greedy_based_simulate contains a key of the hater map.
C5_NoHaterCandidate ==
    /\ ~HasHater(initial_group)
    /\ \A g \in valid_samples : ~HasHater(g)
    /\ \A i \in DOMAIN valid_groups : ~HasHater(valid_groups[i])
    /\ \A i \in DOMAIN top_sum_influence_groups : ~HasHater(top_sum_influence_groups[i])

\* C8: when every candidate is a node of the graph, find_average_influence
\* raises nothing and gives score 0 to each candidate without neighbours.
C8_ZeroNeighboursScoreZero ==
    (pc \in {"main_top", "top_done", "raised"}
        /\ Range(nodes_above_average) \subseteq graph.nodes)
     => /\ raised = ""
        /\ \A u \in Range(nodes_above_average) :
              neighbors(graph, u) = {} =>
                 u \in DOMAIN influence_per_node /\ influence_per_node[u] = 0

(***************************************************************************)
(* Properties of the selection stages.                                     *)
(***************************************************************************)
Min(a, b) == IF a < b THEN a ELSE b

\* C9: top_spreadness and top_sum_influence return at most min(k, number of
\* groups) groups, and on an empty list of groups the three stages end with
\* an empty result and no exception.
C9_ToleratesFewGroups ==
    /\ Len(top_spreadness_groups) <= Min(arg_k, Len(valid_groups))
    /\ Len(top_sum_influence_groups) <= Min(arg_t, Len(top_spreadness_groups))
    /\ valid_groups = <<>> =>
          /\ raised = ""
          /\ top_spreadness_groups = <<>>
          /\ top_sum_influence_groups = <<>>
          /\ S_0 = <<>>

Survivors(g) == Cardinality(Range(g) \ DOMAIN haters.w)

\* C6: with num_tests = 1 and p_base = 0 the average of a group is the count
\* |group minus haters|, and the returned group is the first of the list
\* whose count is maximal.
C6_GreedyFirstMaximum ==
    (pc = "greedy_done" /\ num_tests = 1 /\ p_base = 0) =>
        \E i \in DOMAIN top_sum_influence_groups :
            /\ S_0 = top_sum_influence_groups[i]
            /\ \A j \in DOMAIN top_sum_influence_groups :
                  /\ Survivors(top_sum_influence_groups[j]) <= Survivors(S_0)
                  /\ j < i => Survivors(top_sum_influence_groups[j]) < Survivors(S_0)

\* the sum of the score-table entries of the members of a group, each entry
\* taken at the index of the member's node id
RECURSIVE EntrySum(_, _, _)
EntrySum(grp, list, i) ==
    IF i > Len(grp) THEN 0
    ELSE (IF grp[i] \in DOMAIN list THEN list[grp[i]] ELSE 0) + EntrySum(grp, list, i + 1)

\* the groups in descending order of EntrySum, equal sums in input order
ByEntrySum(list_groups, list) ==
    LET scored == [i \in DOMAIN list_groups |->
                     [group |-> list_groups[i],
                      score |-> [kind |-> "num", num |-> EntrySum(list_groups[i], list, 1),
                                 den |-> ScoreDen]]]
        ordered == SortDesc(scored, <<>>)
    IN [i \in DOMAIN ordered |-> ordered[i].group]

\* C11: top_sum_influence returns the min(t, number of groups) groups with
\* the largest sum of the members' score-table entries, indexed by node id,
\* in descending order of that sum with equal sums kept in input order.
C11_TopSumInfluence ==
    pc = "greedy_start" =>
        /\ Len(top_sum_influence_groups) = Min(arg_t, Len(top_spreadness_groups))
        /\ top_sum_influence_groups =
              FirstN(ByEntrySum(top_spreadness_groups, influence_per_node), arg_t)

====
